---- MODULE Spec2Model ----
(***************************************************************************)
(* Model of the WhatsApp automation backend (src/unnamed/part_001, lines   *)
(* 1-475): the shared browser handle, the session record, the reaping of   *)
(* WhatsApp tabs, the send routine and the HTTP handlers that drive them.  *)
(*                                                                         *)
(* Node runs the handlers on one event loop: code between two awaits is    *)
(* atomic, and handlers interleave at every await.  A value of pc names    *)
(* the awaited call a handler is suspended on; one action is "that call    *)
(* settles (resolves or rejects), and the handler runs on to its next      *)
(* await or to its response".                                              *)
(***************************************************************************)
EXTENDS Integers, Sequences, FiniteSets, TLC

VARIABLES
  browser,               \* `browser`: 0 (undefined) or the id of a launched browser
  alive,                 \* ids of the browser processes that are running
  nlaunch,               \* number of browsers launched so far (next id - 1)
  pages,                 \* open pages, in creation order: [id, br, url]
  whatsappSessionState,  \* the session record
  messageDelay,          \* `messageDelay`
  lastUpdate,            \* the delay set by the last accepted POST /api/update-delay,
                         \* 0 when none or when a send request overrode it since
  proc,                  \* slot -> the suspended handler and its locals
  nreq,                  \* requests still to arrive
  legacy,                \* src/server.js: `browser`, `isWhatsAppReady`, the browsers
                         \* that are running, launches so far, requests to come
  legacyProc,            \* src/server.js: slot -> the suspended handler
  whatsappReady,         \* frontend: the React state `whatsappReady`
  checkInterval          \* frontend: the status polling started by initializeWhatsApp

\* the variables of the backend, and those of the legacy server and of the
\* frontend, which are programs of their own
serverVars == <<browser, alive, nlaunch, pages, whatsappSessionState, messageDelay,
                lastUpdate, proc, nreq>>
otherVars == <<legacy, legacyProc, whatsappReady, checkInterval>>
vars == <<serverVars, otherVars>>

----------------------------------------------------------------------------
(* Bounds *)

MaxSlots == 2        \* request handlers that may be suspended at once
MaxRequests == 2     \* requests that arrive over one run
MaxContacts == 2     \* longest contact list of a request
MaxOverlap == 1      \* longest contact list of two send requests that overlap
ReapRequests == 3    \* requests that arrive over one run of init, close, status and send

Slots == 1..MaxSlots
Listen == 0          \* the app.listen callback
Signal == 0 - 1      \* the SIGINT handler
Procs == {Listen, Signal} \cup Slots
MaxPages == MaxRequests * (MaxContacts + 1) + 1
PageIds == 1..MaxPages

----------------------------------------------------------------------------
(* Values *)

\* JavaScript `undefined` for a string-valued field
Undefined == <<"undefined">>

\* truthiness of a string-or-undefined value: `!v` is false
Truthy(v) == v # Undefined /\ v # <<>>

Digits == {"0", "1", "2", "3", "4", "5", "6", "7", "8", "9"}

\* phone.replace(/\D/g, '')
FormatPhone(phone) == SelectSeq(phone, LAMBDA c : c \in Digits)

\* encodeURIComponent on the characters used here
EncodeChar(c) == IF c = " " THEN "%20" ELSE c
EncodeURIComponent(m) == [k \in 1..Len(m) |-> EncodeChar(m[k])]

\* URLs are sequences of tokens; includes() looks for a token
Site == "web.whatsapp.com"
SendMarker == "send/?phone="
AboutBlank == <<"about:blank">>
RootUrl == <<"https://", Site, "/">>
SendUrl(phone, message) ==
  <<"https://", Site, "/", SendMarker, "%2B">> \o FormatPhone(phone)
    \o <<"&text=">> \o EncodeURIComponent(message) \o <<"&type=phone_number">>
Includes(url, tok) == \E k \in 1..Len(url) : url[k] = tok

\* contacts a request may carry: a full one, one with an empty phone, one
\* without a message, one whose phone holds no digit
Recipients ==
  { [phone |-> <<"+", "6", "2">>, message |-> <<"H", " ">>],
    [phone |-> <<>>,              message |-> <<"H", " ">>],
    [phone |-> <<"+", "6", "2">>, message |-> Undefined],
    [phone |-> <<" ">>,           message |-> <<"H", " ">>] }
\* the contacts of the requests that overlap other requests
OverlapRecipients ==
  { [phone |-> <<"+", "6", "2">>, message |-> <<"H", " ">>],
    [phone |-> <<>>,              message |-> <<"H", " ">>] }
\* the contacts of the requests that carry every kind of `delay`
DelayRecipients == { [phone |-> <<"+", "6", "2">>, message |-> <<"H", " ">>] }
ContactLists(R, n) == UNION { [1..k -> R] : k \in 0..n }

DefaultDelay == 5000
MinDelay == 1000

\* `delay` of a request body: absent, a number, or a string; n is the number,
\* or the number the string converts to in a comparison
NoDelay == [type |-> "undefined", n |-> 0]
Num(n) == [type |-> "number", n |-> n]
Str(n) == [type |-> "string", n |-> n]
DelayInputs == {NoDelay, Num(0), Num(500), Num(1000), Num(2000), Str(2000)}

\* `!delay` is false: a non-empty string or a number other than 0
TruthyDelay(d) == d.type = "string" \/ (d.type = "number" /\ d.n # 0)

\* OverrideAccepted without `delay >= 1000`
OverrideAcceptedNoMinimum(d) == TruthyDelay(d) /\ d.type = "number"

\* `delay && typeof delay === 'number' && delay >= 1000` of POST /send-messages
OverrideAccepted(d) == TruthyDelay(d) /\ d.type = "number" /\ d.n >= MinDelay

\* UpdateRejected without `delay < 1000`
UpdateRejectedNoMinimum(d) == ~TruthyDelay(d) \/ d.type # "number"

\* UpdateRejected without `typeof delay !== 'number'`
UpdateRejectedNoTypeof(d) == ~TruthyDelay(d) \/ d.n < MinDelay

\* `!delay || typeof delay !== 'number' || delay < 1000` of POST /api/update-delay
UpdateRejected(d) == ~TruthyDelay(d) \/ d.type # "number" \/ d.n < MinDelay

\* the okButtonSelectors list; 'x:contains("OK")' is not a CSS selector
NumSelectors == 5
ValidCss(k) == k \in {1, 5}

----------------------------------------------------------------------------
(* Handler records *)

\* what one call of sendWhatsAppMessage did: the page it opened, whether its
\* click on Send resolved, whether it called page.close(), and the line of
\* the return statement it left by (0 while it runs); while it runs, whether
\* a click on an OK button has resolved (hit) and whether a waitForTimeout
\* has resolved since the last page.close() was called (paced)
NoAttempt == [page |-> 0, clicked |-> FALSE, closeTried |-> FALSE, site |-> 0,
              hit |-> FALSE, paced |-> FALSE]

\* what one call of closeExistingWhatsAppTabs met and did: whether its first
\* browser.pages() resolved (ran), the URLs of the WhatsApp pages without and
\* whether there were pages with the send marker in that list (primary,
\* ephemeral), whether it has returned (ended), how many of the listed pages
\* its loop is to close (selected), on how many it has called close()
\* (attempted), and whether one of these calls rejected (failed)
NoReap == [ran |-> FALSE, primary |-> <<>>, ephemeral |-> FALSE, ended |-> FALSE,
           selected |-> 0, attempted |-> 0, failed |-> FALSE]

\* A handler: its kind, the await it is suspended on, its locals, and a
\* record of what it did: delays taken, contacts visited by the loop, contacts
\* passed to sendWhatsAppMessage, the current or last call of it, and the
\* <<outcome, returned value>> pairs of the calls that returned; the `delay`
\* of its request body (arg), messageDelay when the request arrived (before),
\* the values of messageDelay its timers were set with (used), and the
\* `delay` of its response (0 when the response has none); its last call of
\* closeExistingWhatsAppTabs (reap, kept until the handler's next await
\* settles), the calls and awaits an init request or a direct initBrowser
\* call went through (steps), whether `browser` was set at the `!browser`
\* test after closeExistingWhatsAppTabs or at the direct call (hadBrowser),
\* and the browsers initBrowser or the SIGINT handler called close() on
\* (closes); for the SIGINT handler and for an init request, the browsers
\* that were running when it arrived (seen)
Idle == [kind |-> "idle", pc |-> "idle", contacts |-> <<>>, i |-> 0,
         successCount |-> 0, failCount |-> 0, page |-> 0, br |-> 0,
         whatsappPages |-> <<>>, forceClose |-> FALSE, sel |-> 0,
         status |-> 0, launchFailed |-> FALSE,
         delays |-> 0, calls |-> <<>>, visited |-> <<>>, att |-> NoAttempt,
         returned |-> {},
         arg |-> NoDelay, before |-> 0, used |-> {}, delay |-> 0,
         reap |-> NoReap, steps |-> <<>>, hadBrowser |-> FALSE, closes |-> <<>>,
         seen |-> {}]

Busy(s) == proc[s].kind # "idle" /\ proc[s].pc # "done"

IsOpen(pgs, id) == \E k \in 1..Len(pgs) : pgs[k].id = id
RemovePage(pgs, id) == SelectSeq(pgs, LAMBDA p : p.id # id)
SetUrl(pgs, id, u) ==
  [k \in 1..Len(pgs) |-> IF pgs[k].id = id THEN [pgs[k] EXCEPT !.url = u] ELSE pgs[k]]

UsedPageIds ==
  { pages[k].id : k \in 1..Len(pages) }
    \cup { proc[s].page : s \in Procs } \cup { proc[s].att.page : s \in Procs }
    \cup UNION { { proc[s].whatsappPages[k].id : k \in 1..Len(proc[s].whatsappPages) } : s \in Procs }
FreshPage == CHOOSE n \in PageIds : n \notin UsedPageIds

\* browser.pages() filtered by page.url().includes('web.whatsapp.com')
WhatsappPagesOf(pgs, b) ==
  SelectSeq(pgs, LAMBDA p : p.br = b /\ Includes(p.url, Site))
Urls(ps) == [k \in 1..Len(ps) |-> ps[k].url]

\* the responses that carry `delay: messageDelay`
ReportsDelay(kind, code) ==
  \/ kind = "status"
  \/ kind \in {"batch", "update"} /\ code = 200

\* the handler of an init request, of a direct initBrowser call or of SIGINT
\* goes on to the named call or await
Step(p, name) ==
  IF p.kind \in {"init", "start", "signal"} THEN [p EXCEPT !.steps = Append(@, name)] ELSE p

\* res.json / res.status(n).json: the handler is over
Respond(p, code) ==
  [p EXCEPT !.pc = "done", !.status = code, !.page = 0, !.br = 0,
            !.delay = IF ReportsDelay(p.kind, code) THEN messageDelay ELSE 0]


----------------------------------------------------------------------------
(* Continuations: what a handler does, without suspending, once an awaited  *)
(* call has settled.  p is the handler's record, b the value of `browser`.  *)

\* what the return statement at line `site` of sendWhatsAppMessage reports
\* in the log: sent (167), invalid number handled (223), or an error
Outcome(site) ==
  CASE site = 167 -> "Sent"
    [] site = 223 -> "Rejected"
    [] OTHER      -> "Failed"

\* SendReturn with the delay taken after the last contact too
SendReturnDelayAfterLast(p, site, ret) ==
  LET q == [p EXCEPT !.att.site = site, !.att.hit = FALSE, !.att.paced = FALSE,
                     !.page = 0, !.sel = 0, !.br = 0,
                     !.returned = @ \cup {<<Outcome(site), ret>>},
                     !.successCount = IF ret THEN @ + 1 ELSE @,
                     !.failCount = IF ret THEN @ ELSE @ + 1]
  IN [q EXCEPT !.pc = "delay", !.used = @ \cup {messageDelay}]

\* SendReturn with the loop left at the first send that fails
SendReturnAbortOnFail(p, site, ret) ==
  LET q == [p EXCEPT !.att.site = site, !.att.hit = FALSE, !.att.paced = FALSE,
                     !.page = 0, !.sel = 0, !.br = 0,
                     !.returned = @ \cup {<<Outcome(site), ret>>},
                     !.successCount = IF ret THEN @ + 1 ELSE @,
                     !.failCount = IF ret THEN @ ELSE @ + 1]
  IN IF ret /\ q.i < Len(q.contacts) - 1
       THEN [q EXCEPT !.pc = "delay", !.used = @ \cup {messageDelay}]
       ELSE Respond([q EXCEPT !.i = @ + 1], 200)

\* SendReturn without the outer catch: its exception reaches the handler
SendReturnRethrow(p, site, ret) ==
  LET q == [p EXCEPT !.att.site = site, !.att.hit = FALSE, !.att.paced = FALSE,
                     !.page = 0, !.sel = 0, !.br = 0,
                     !.returned = @ \cup {<<Outcome(site), ret>>},
                     !.successCount = IF ret THEN @ + 1 ELSE @,
                     !.failCount = IF ret THEN @ ELSE @ + 1]
  IN IF site = 239 THEN Respond(p, 500)
     ELSE IF q.i < Len(q.contacts) - 1
       THEN [q EXCEPT !.pc = "delay", !.used = @ \cup {messageDelay}]
       ELSE Respond([q EXCEPT !.i = @ + 1], 200)

\* sendWhatsAppMessage returns `ret` from the return statement at line `site`;
\* the loop of POST /send-messages counts it and delays or ends
SendReturn(p, site, ret) ==
  LET q == [p EXCEPT !.att.site = site, !.att.hit = FALSE, !.att.paced = FALSE,
                     !.page = 0, !.sel = 0, !.br = 0,
                     !.returned = @ \cup {<<Outcome(site), ret>>},
                     !.successCount = IF ret THEN @ + 1 ELSE @,
                     !.failCount = IF ret THEN @ ELSE @ + 1]
  IN IF q.i < Len(q.contacts) - 1
       THEN [q EXCEPT !.pc = "delay", !.used = @ \cup {messageDelay}]
       ELSE Respond([q EXCEPT !.i = @ + 1], 200)

\* CallSend without the outer catch: the TypeError of `browser.newPage()` on
\* an unset `browser` reaches the handler
CallSendThrows(p, b) ==
  LET q == [p EXCEPT !.att = NoAttempt, !.calls = Append(@, p.i + 1)]
  IN IF b = 0
       THEN Respond(q, 500)
       ELSE [q EXCEPT !.pc = "send_newPage", !.br = b]

\* sendWhatsAppMessage up to `await browser.newPage()`
CallSend(p, b) ==
  LET q == [p EXCEPT !.att = NoAttempt, !.calls = Append(@, p.i + 1)]
  IN IF b = 0
       THEN SendReturn(q, 239, FALSE)
       ELSE [q EXCEPT !.pc = "send_newPage", !.br = b]

\* LoopStep with `continue` before `failCount++`
RECURSIVE LoopStepSkipUncounted(_, _)
LoopStepSkipUncounted(p, b) ==
  IF p.i >= Len(p.contacts)
    THEN Respond(p, 200)
    ELSE LET contact == p.contacts[p.i + 1]
             q == [p EXCEPT !.visited = Append(@, p.i + 1)]
         IN IF ~Truthy(contact.phone) \/ ~Truthy(contact.message)
              THEN LoopStepSkipUncounted([q EXCEPT !.i = @ + 1], b)
              ELSE CallSend(q, b)

\* LoopStep with `!phone && !message`
RECURSIVE LoopStepBothMissing(_, _)
LoopStepBothMissing(p, b) ==
  IF p.i >= Len(p.contacts)
    THEN Respond(p, 200)
    ELSE LET contact == p.contacts[p.i + 1]
             q == [p EXCEPT !.visited = Append(@, p.i + 1)]
         IN IF ~Truthy(contact.phone) /\ ~Truthy(contact.message)
              THEN LoopStepBothMissing([q EXCEPT !.failCount = @ + 1, !.i = @ + 1], b)
              ELSE CallSend(q, b)

\* the for loop of POST /send-messages from its test `i < contacts.length`
RECURSIVE LoopStep(_, _)
LoopStep(p, b) ==
  IF p.i >= Len(p.contacts)
    THEN Respond(p, 200)
    ELSE LET contact == p.contacts[p.i + 1]
             q == [p EXCEPT !.visited = Append(@, p.i + 1)]
         IN IF ~Truthy(contact.phone) \/ ~Truthy(contact.message)
              THEN LoopStep([q EXCEPT !.failCount = @ + 1, !.i = @ + 1], b)
              ELSE CallSend(q, b)

\* initBrowser without the close of the existing browser
InitBrowserEnterNoClose(p, b) ==
  [Step(p, "start") EXCEPT !.pc = "ib_launch"]

\* initBrowser up to its first await
InitBrowserEnter(p, b) ==
  LET q == Step(p, "start")
  IN IF b # 0 THEN [q EXCEPT !.pc = "ib_close", !.br = b, !.closes = Append(@, b)]
              ELSE [q EXCEPT !.pc = "ib_launch"]

\* POST /api/init-whatsapp up to `await browser.newPage()`
OpenPrimary(p, b) ==
  [Step(p, "open") EXCEPT !.pc = "init_newPage", !.br = b]

\* initBrowser returned the browser b to its caller
AfterInitBrowser(p, b) ==
  CASE p.kind = "listen" -> [p EXCEPT !.pc = "done"]
    [] p.kind = "start"  -> Respond(p, 200)
    [] p.kind = "init"   -> OpenPrimary(p, b)
    [] p.kind = "batch"  -> LoopStep(p, b)

\* InitBrowserThrew with the error swallowed: the caller goes on
InitBrowserThrewSwallowed(p) ==
  AfterInitBrowser([p EXCEPT !.launchFailed = TRUE], 0)

\* initBrowser threw: the caller's catch
InitBrowserThrew(p) ==
  LET q == [p EXCEPT !.launchFailed = TRUE]
  IN IF p.kind = "listen" THEN [q EXCEPT !.pc = "done"] ELSE Respond(q, 500)

\* AfterReap with the batch going on to its loop whether or not `browser` is set
AfterReapNoLazyStart(p, b) ==
  LET q == [p EXCEPT !.whatsappPages = <<>>, !.forceClose = FALSE, !.br = 0,
                     !.reap.ended = TRUE, !.hadBrowser = (b # 0)]
  IN CASE p.kind = "close" -> Respond(q, 200)
       [] p.kind = "init"  -> IF b = 0 THEN InitBrowserEnter(q, b)
                                       ELSE OpenPrimary(q, b)
       [] p.kind = "batch" -> LoopStep(q, b)

\* AfterReap with initBrowser called whether or not `browser` is set
AfterReapAlwaysStart(p, b) ==
  LET q == [p EXCEPT !.whatsappPages = <<>>, !.forceClose = FALSE, !.br = 0,
                     !.reap.ended = TRUE, !.hadBrowser = (b # 0)]
  IN CASE p.kind = "close" -> Respond(q, 200)
       [] p.kind = "init"  -> InitBrowserEnter(q, b)
       [] p.kind = "batch" -> IF b = 0 THEN InitBrowserEnter(q, b)
                                       ELSE LoopStep(q, b)

\* closeExistingWhatsAppTabs returned to its caller
AfterReap(p, b) ==
  LET q == [p EXCEPT !.whatsappPages = <<>>, !.forceClose = FALSE, !.br = 0,
                     !.reap.ended = TRUE, !.hadBrowser = (b # 0)]
  IN CASE p.kind = "close" -> Respond(q, 200)
       [] p.kind = "init"  -> IF b = 0 THEN InitBrowserEnter(q, b)
                                       ELSE OpenPrimary(q, b)
       [] p.kind = "batch" -> IF b = 0 THEN InitBrowserEnter(q, b)
                                       ELSE LoopStep(q, b)

\* closeExistingWhatsAppTabs(forceClose) up to `await browser.pages()`
ReapEnter(p, forceClose, b) ==
  IF b = 0 THEN AfterReap(p, b)
           ELSE [p EXCEPT !.pc = "reap_pages", !.forceClose = forceClose, !.br = b]

\* SkipKept without the test of line 47: every listed page is closed
SkipKeptAll(rest, forceClose) == rest

\* the pages of the loop from the first one that is closed
RECURSIVE SkipKept(_, _)
SkipKept(rest, forceClose) ==
  IF rest = <<>> THEN <<>>
  ELSE IF forceClose \/ Includes(Head(rest).url, SendMarker) THEN rest
  ELSE SkipKept(Tail(rest), forceClose)

\* the session record after the loop of a force close
ForceClosed(st) == [st EXCEPT !.activeTabs = <<>>, !.active = FALSE]

\* the session record recomputed from the open pages of browser b
Recount(st, pgs, b) ==
  [st EXCEPT !.activeTabs = Urls(WhatsappPagesOf(pgs, b)),
             !.active = Len(WhatsappPagesOf(pgs, b)) > 0]

\* closeExistingWhatsAppTabs after its loop
ReapTail(p, b) ==
  IF p.forceClose
    THEN AfterReap(p, b)
    ELSE [p EXCEPT !.whatsappPages = <<>>, !.pc = "reap_pages2", !.br = b]

\* the loop of closeExistingWhatsAppTabs with `rest` still to visit
ReapLoop(p, rest, b) ==
  LET r == SkipKept(rest, p.forceClose)
  IN IF r = <<>> THEN ReapTail(p, b)
                 ELSE [p EXCEPT !.pc = "reap_close", !.whatsappPages = r]

----------------------------------------------------------------------------
(* The legacy server (src/server.js) and the frontend: records and start *)

\* a handler of the legacy server: its kind, the await it is suspended on,
\* the browser its calls go to, the contacts still to send to, its counts
\* and its response status
LegacyIdle == [kind |-> "idle", pc |-> "idle", br |-> 0, left |-> 0,
               successCount |-> 0, failCount |-> 0, status |-> 0]

\* src/server.js after the module is loaded: `let browser; let
\* isWhatsAppReady = false`
LegacyStart ==
  /\ legacy = [browser |-> 0, isWhatsAppReady |-> FALSE, alive |-> {},
               nlaunch |-> 0, nreq |-> ReapRequests]
  /\ legacyProc = [s \in Slots |-> LegacyIdle]

\* the frontend after mount: `useState(false)`, no polling started; the
\* polling record holds whether the init request is awaited (posting),
\* whether the interval is set, the value of whatsappReady that
\* initializeWhatsApp and its callback closed over (seen), the callbacks run
\* so far (ticks) and whether one of its polls reported ready (reported)
NoInterval == [posting |-> FALSE, set |-> FALSE, seen |-> FALSE, ticks |-> 0,
               reported |-> FALSE]
FrontendStart ==
  /\ whatsappReady = FALSE
  /\ checkInterval = NoInterval

----------------------------------------------------------------------------
(* Initial state *)

\* the state after the module is loaded, with n requests to come
Start(n) ==
  /\ browser = 0
  /\ alive = {}
  /\ nlaunch = 0
  /\ pages = <<>>
  /\ whatsappSessionState =
       [initialized |-> FALSE, active |-> FALSE, lastActivity |-> "null",
        activeTabs |-> <<>>]
  /\ messageDelay = DefaultDelay
  /\ lastUpdate = 0
  /\ proc = [s \in Procs |->
               IF s = Listen THEN [Idle EXCEPT !.kind = "listen", !.pc = "listen"]
                             ELSE Idle]
  /\ nreq = n
  /\ LegacyStart
  /\ FrontendStart

Init == Start(MaxRequests)
InitReap == Start(ReapRequests)


----------------------------------------------------------------------------
(* Scheduling *)

\* process.exit has not been called
Running == proc[Signal].pc # "exited"

\* res.json is the last statement of a handler: nothing runs between the
\* handler's last step and the end of the handler
Responding == \E s \in Slots : proc[s].pc = "done"

\* the awaits of sendWhatsAppMessage on its own page that neither read nor
\* change anything another handler uses
OnOwnPage(s) ==
  proc[s].pc \in {"send_waitSend", "send_click", "send_pace", "probe_wait",
                  "probe_click", "probe_eval", "probe_gclick", "ok_pace"}

\* An await on a handler's own page may reject for any reason, so what it
\* can do after another handler moved (which can only have closed the page)
\* it can do before: the interleavings in which it goes first reach every
\* state of the shared variables that the others reach.
Ready == Running /\ ~Responding /\ \A s \in Slots : ~OnOwnPage(s)

\* handler s is suspended on the await `at`, which now settles
At(s, at) ==
  /\ proc[s].pc = at
  /\ IF OnOwnPage(s) THEN Running /\ ~Responding ELSE Ready

----------------------------------------------------------------------------
(* Process start and the browser *)

Set(s, q) == proc' = [proc EXCEPT ![s] = q]

\* app.listen callback: initBrowser().catch(...)
ListenCallback ==
  /\ At(Listen, "listen")
  /\ Set(Listen, InitBrowserEnter(proc[Listen], browser))
  /\ UNCHANGED <<browser, alive, nlaunch, pages, whatsappSessionState, messageDelay, lastUpdate, nreq, otherVars>>

\* initBrowser: `await browser.close()` of the existing browser settles.  It
\* ends the browser process; on a browser that is gone it rejects, which is
\* caught and logged.  No handler reaches it: the handlers call initBrowser
\* only under `!browser`, and the start-up call runs before any launch; a
\* direct second call (StartCall) does.
IbClose(s) ==
  /\ At(s, "ib_close")
  /\ \E ok \in BOOLEAN :
       /\ ok <=> proc[s].br \in alive
       /\ alive' = alive \ {proc[s].br}
       /\ pages' = SelectSeq(pages, LAMBDA g : g.br # proc[s].br)
  /\ Set(s, [Step(proc[s], "close") EXCEPT !.pc = "ib_launch"])
  /\ UNCHANGED <<browser, nlaunch, whatsappSessionState, messageDelay, lastUpdate, nreq, otherVars>>

\* initBrowser: `browser = await puppeteer.launch(...)` settles
IbLaunch(s) ==
  /\ At(s, "ib_launch")
  /\ \E ok \in BOOLEAN :
       IF ok
         THEN /\ nlaunch' = nlaunch + 1
              /\ alive' = alive \cup {nlaunch + 1}
              /\ browser' = nlaunch + 1
              /\ whatsappSessionState' =
                   [whatsappSessionState EXCEPT !.initialized = TRUE,
                                                !.lastActivity = "Date"]
              /\ Set(s, AfterInitBrowser([Step(proc[s], "launch") EXCEPT !.reap = NoReap],
                                             nlaunch + 1))
         ELSE /\ whatsappSessionState' =
                   [whatsappSessionState EXCEPT
                      !.initialized = FALSE,
                      !.active = IF proc[s].kind = "init" THEN FALSE ELSE @]
              /\ Set(s, InitBrowserThrew([proc[s] EXCEPT !.reap = NoReap]))
              /\ UNCHANGED <<browser, alive, nlaunch>>
  /\ UNCHANGED <<pages, messageDelay, lastUpdate, nreq, otherVars>>

\* the browser process ends outside the program (window closed, crash)
BrowserDies(b) ==
  /\ Ready
  /\ b \in alive
  /\ alive' = alive \ {b}
  /\ pages' = SelectSeq(pages, LAMBDA g : g.br # b)
  /\ UNCHANGED <<browser, nlaunch, whatsappSessionState, messageDelay, lastUpdate, proc, nreq, otherVars>>

\* `process.exit(0)`
Exit(p) == [Step(p, "exit") EXCEPT !.pc = "exited", !.br = 0]

\* SIGINT arrives: the handler up to `await browser.close()`, or to
\* process.exit when `browser` is not set
Sigint ==
  /\ At(Signal, "idle")
  /\ LET p == [Idle EXCEPT !.kind = "signal", !.hadBrowser = (browser # 0),
                           !.seen = alive]
     IN Set(Signal, IF browser # 0
                      THEN [Step(p, "close") EXCEPT !.pc = "sig_close", !.br = browser,
                                                    !.closes = <<browser>>]
                      ELSE Exit(p))
  /\ UNCHANGED <<browser, alive, nlaunch, pages, whatsappSessionState, messageDelay, lastUpdate, nreq, otherVars>>

\* SIGINT: `await browser.close()` settles.  On a browser that is gone it
\* rejects: the handler has no catch, process.exit(0) is not reached, and
\* the unhandled rejection ends the process or is only reported, depending
\* on the Node version.
SigClose ==
  /\ At(Signal, "sig_close")
  /\ alive' = alive \ {proc[Signal].br}
  /\ pages' = SelectSeq(pages, LAMBDA g : g.br # proc[Signal].br)
  /\ IF proc[Signal].br \in alive
       THEN Set(Signal, Exit(proc[Signal]))
       ELSE \E ends \in BOOLEAN :
              Set(Signal, [proc[Signal] EXCEPT !.pc = IF ends THEN "exited" ELSE "done",
                                               !.br = 0])
  /\ UNCHANGED <<browser, nlaunch, whatsappSessionState, messageDelay, lastUpdate, nreq, otherVars>>

----------------------------------------------------------------------------
(* Requests *)

\* a request reaches a free handler
Accept(s) ==
  /\ Ready
  /\ proc[Listen].pc # "listen"
  /\ proc[s].kind = "idle"
  /\ \A t \in Slots : t < s => proc[t].kind # "idle"
  /\ nreq > 0
  /\ nreq' = nreq - 1

\* two send requests overlap only when both carry short contact lists
MayOverlap(s, contacts) ==
  \A t \in Slots \ {s} :
    proc[t].kind = "batch" =>
      Len(contacts) <= MaxOverlap /\ Len(proc[t].contacts) <= MaxOverlap

\* the response is written and the handler ends; the handlers that arrived
\* after it move up one slot, so that the slots list them in order of arrival
Release(s) ==
  /\ Running
  /\ proc[s].pc = "done"
  /\ s \in Slots
  /\ proc' = [t \in Procs |->
                IF t \in Slots /\ t >= s
                  THEN IF t + 1 \in Slots THEN proc[t + 1] ELSE Idle
                  ELSE proc[t]]
  /\ UNCHANGED <<browser, alive, nlaunch, pages, whatsappSessionState, messageDelay, lastUpdate, nreq, otherVars>>

\* POST /send-messages up to its first await
SendMessagesReq(s, contacts, delay) ==
  /\ Accept(s)
  /\ MayOverlap(s, contacts)
  /\ LET p == [Idle EXCEPT !.kind = "batch", !.contacts = contacts,
                            !.arg = delay, !.before = messageDelay]
     IN IF Len(contacts) = 0
          THEN /\ Set(s, Respond(p, 400))
               /\ UNCHANGED <<messageDelay, lastUpdate>>
          ELSE /\ messageDelay' = IF OverrideAccepted(delay) THEN delay.n ELSE messageDelay
               /\ lastUpdate' = IF OverrideAccepted(delay) THEN 0 ELSE lastUpdate
               /\ Set(s, ReapEnter(p, FALSE, browser))
  /\ UNCHANGED <<browser, alive, nlaunch, pages, whatsappSessionState, otherVars>>

\* POST /api/init-whatsapp up to its first await
InitWhatsappReq(s) ==
  /\ Accept(s)
  /\ Set(s, ReapEnter([Idle EXCEPT !.kind = "init", !.steps = <<"reap">>, !.seen = alive],
                      TRUE, browser))
  /\ UNCHANGED <<browser, alive, nlaunch, pages, whatsappSessionState, messageDelay, lastUpdate, otherVars>>

\* POST /api/close-whatsapp up to its first await
CloseWhatsappReq(s) ==
  /\ Accept(s)
  /\ Set(s, ReapEnter([Idle EXCEPT !.kind = "close"], TRUE, browser))
  /\ UNCHANGED <<browser, alive, nlaunch, pages, whatsappSessionState, messageDelay, lastUpdate, otherVars>>

\* GET /api/whatsapp-status up to its first await
StatusReq(s) ==
  /\ Accept(s)
  /\ LET p == [Idle EXCEPT !.kind = "status"]
     IN Set(s, IF browser = 0 THEN Respond(p, 200)
                              ELSE [p EXCEPT !.pc = "status_pages", !.br = browser])
  /\ UNCHANGED <<browser, alive, nlaunch, pages, whatsappSessionState, messageDelay, lastUpdate, otherVars>>

\* UpdateDelayReq without `messageDelay = delay`
UpdateDelayReqNoStore(s, delay) ==
  /\ Accept(s)
  /\ LET p == [Idle EXCEPT !.kind = "update", !.arg = delay, !.before = messageDelay]
     IN IF UpdateRejected(delay)
          THEN /\ Set(s, Respond(p, 400))
               /\ UNCHANGED <<messageDelay, lastUpdate>>
          ELSE /\ lastUpdate' = delay.n
               /\ Set(s, Respond(p, 200))
               /\ UNCHANGED messageDelay
  /\ UNCHANGED <<browser, alive, nlaunch, pages, whatsappSessionState, otherVars>>

\* initBrowser() called again once the start-up call has returned, by a
\* caller that does not test `browser`
StartCall(s) ==
  /\ Accept(s)
  /\ proc[Listen].pc = "done"
  /\ Set(s, InitBrowserEnter([Idle EXCEPT !.kind = "start", !.hadBrowser = (browser # 0)],
                              browser))
  /\ UNCHANGED <<browser, alive, nlaunch, pages, whatsappSessionState, messageDelay, lastUpdate, otherVars>>

\* sendWhatsAppMessage(contact.phone, contact.message) called by a caller that
\* does not test `browser`: the loop of POST /send-messages entered at once
SendCall(s, contact) ==
  /\ Accept(s)
  /\ Set(s, LoopStep([Idle EXCEPT !.kind = "batch", !.contacts = <<contact>>,
                                   !.before = messageDelay,
                                   !.hadBrowser = (browser # 0)],
                      browser))
  /\ UNCHANGED <<browser, alive, nlaunch, pages, whatsappSessionState, messageDelay, lastUpdate, otherVars>>

\* POST /api/update-delay: the handler has no await
UpdateDelayReq(s, delay) ==
  /\ Accept(s)
  /\ LET p == [Idle EXCEPT !.kind = "update", !.arg = delay, !.before = messageDelay]
     IN IF UpdateRejected(delay)
          THEN /\ Set(s, Respond(p, 400))
               /\ UNCHANGED <<messageDelay, lastUpdate>>
          ELSE /\ messageDelay' = delay.n
               /\ lastUpdate' = delay.n
               /\ Set(s, [Respond(p, 200) EXCEPT !.delay = delay.n])
  /\ UNCHANGED <<browser, alive, nlaunch, pages, whatsappSessionState, otherVars>>

\* GET /api/whatsapp-status: `await browser.pages()` settles; on a browser
\* that is gone it rejects or lists no page
StatusPages(s) ==
  /\ At(s, "status_pages")
  /\ \E listed \in BOOLEAN :
       /\ proc[s].br \in alive => listed
       /\ IF listed
            THEN /\ whatsappSessionState' = Recount(whatsappSessionState, pages, proc[s].br)
                 /\ Set(s, Respond(proc[s], 200))
            ELSE /\ UNCHANGED whatsappSessionState
                 /\ Set(s, Respond(proc[s], 500))
  /\ UNCHANGED <<browser, alive, nlaunch, pages, messageDelay, lastUpdate, nreq, otherVars>>

----------------------------------------------------------------------------
(* closeExistingWhatsAppTabs *)

\* the first `await browser.pages()` settles; on a browser that is gone it
\* rejects or lists no page
ReapPages(s) ==
  /\ At(s, "reap_pages")
  /\ \E listed \in BOOLEAN :
       /\ proc[s].br \in alive => listed
       /\ LET found == WhatsappPagesOf(pages, proc[s].br)
              p == [proc[s] EXCEPT !.reap =
                      IF listed
                        THEN [NoReap EXCEPT
                                !.ran = TRUE,
                                !.primary = Urls(SelectSeq(found,
                                   LAMBDA g : ~Includes(g.url, SendMarker))),
                                !.ephemeral = \E k \in 1..Len(found) :
                                   Includes(found[k].url, SendMarker),
                                !.selected = Len(SelectSeq(found,
                                   LAMBDA g : proc[s].forceClose
                                                \/ Includes(g.url, SendMarker)))]
                        ELSE NoReap]
              q == IF listed
                     THEN ReapLoop(p, WhatsappPagesOf(pages, p.br), browser)
                     ELSE AfterReap(p, browser)
          IN /\ Set(s, q)
             /\ whatsappSessionState' =
                  IF listed /\ p.forceClose /\ q.pc # "reap_close"
                    THEN ForceClosed(whatsappSessionState)
                    ELSE whatsappSessionState
  /\ UNCHANGED <<browser, alive, nlaunch, pages, messageDelay, lastUpdate, nreq, otherVars>>

\* ReapClose with a rejected close caught by the outer catch of line 71
ReapCloseAbortOnFail(s) ==
  /\ At(s, "reap_close")
  /\ LET page == Head(proc[s].whatsappPages)
     IN \E ok \in BOOLEAN :
          /\ ok => IsOpen(pages, page.id)
          /\ pages' = IF ok THEN RemovePage(pages, page.id) ELSE pages
          /\ LET p == [proc[s] EXCEPT !.reap.attempted = @ + 1,
                                      !.reap.failed = @ \/ ~ok]
                 q == IF ok THEN ReapLoop(p, Tail(p.whatsappPages), browser)
                            ELSE AfterReap(p, browser)
             IN /\ Set(s, q)
                /\ whatsappSessionState' =
                     IF ok /\ p.forceClose /\ q.pc # "reap_close"
                       THEN ForceClosed(whatsappSessionState)
                       ELSE whatsappSessionState
  /\ UNCHANGED <<browser, alive, nlaunch, messageDelay, lastUpdate, nreq, otherVars>>

\* `await page.close()` of the loop settles; a rejection is caught at line
\* 52 and the loop goes on
ReapClose(s) ==
  /\ At(s, "reap_close")
  /\ LET page == Head(proc[s].whatsappPages)
     IN \E ok \in BOOLEAN :
          /\ ok => IsOpen(pages, page.id)
          /\ pages' = IF ok THEN RemovePage(pages, page.id) ELSE pages
          /\ LET p == [proc[s] EXCEPT !.reap.attempted = @ + 1,
                                      !.reap.failed = @ \/ ~ok]
                 q == ReapLoop(p, Tail(p.whatsappPages), browser)
             IN /\ Set(s, q)
                /\ whatsappSessionState' =
                     IF p.forceClose /\ q.pc # "reap_close"
                       THEN ForceClosed(whatsappSessionState)
                       ELSE whatsappSessionState
  /\ UNCHANGED <<browser, alive, nlaunch, messageDelay, lastUpdate, nreq, otherVars>>

\* the second `await browser.pages()` (soft close) settles
ReapPages2(s) ==
  /\ At(s, "reap_pages2")
  /\ \E listed \in BOOLEAN :
       /\ proc[s].br \in alive => listed
       /\ whatsappSessionState' =
            IF listed
              THEN Recount(whatsappSessionState, pages, proc[s].br)
              ELSE whatsappSessionState
  /\ Set(s, AfterReap(proc[s], browser))
  /\ UNCHANGED <<browser, alive, nlaunch, pages, messageDelay, lastUpdate, nreq, otherVars>>

----------------------------------------------------------------------------
(* POST /api/init-whatsapp after the reap and the launch *)

\* the handler's catch: active = false, status 500
InitFailed(st) == [st EXCEPT !.active = FALSE]

\* the handler's success path: the record after page.goto resolved
InitSucceeded(st, url) ==
  [st EXCEPT !.activeTabs = <<url>>, !.active = TRUE, !.lastActivity = "Date"]

\* `await browser.newPage()` settles
InitNewPage(s) ==
  /\ At(s, "init_newPage")
  /\ IF proc[s].br \in alive
       THEN /\ pages' = Append(pages, [id |-> FreshPage, br |-> proc[s].br, url |-> AboutBlank])
            /\ Set(s, [proc[s] EXCEPT !.pc = "init_goto", !.page = FreshPage,
                                      !.reap = NoReap])
            /\ UNCHANGED whatsappSessionState
       ELSE /\ whatsappSessionState' = InitFailed(whatsappSessionState)
            /\ Set(s, Respond([proc[s] EXCEPT !.reap = NoReap], 500))
            /\ UNCHANGED pages
  /\ UNCHANGED <<browser, alive, nlaunch, messageDelay, lastUpdate, nreq, otherVars>>

\* `await page.goto('https://web.whatsapp.com/')` settles
InitGoto(s) ==
  /\ At(s, "init_goto")
  /\ \E ok \in BOOLEAN, url \in {AboutBlank, RootUrl} :
       /\ ok => IsOpen(pages, proc[s].page) /\ url = RootUrl
       /\ pages' = SetUrl(pages, proc[s].page, url)
       /\ IF ok
            THEN /\ whatsappSessionState' = InitSucceeded(whatsappSessionState, url)
                 /\ Set(s, Respond(proc[s], 200))
            ELSE /\ whatsappSessionState' = InitFailed(whatsappSessionState)
                 /\ Set(s, Respond(proc[s], 500))
  /\ UNCHANGED <<browser, alive, nlaunch, messageDelay, lastUpdate, nreq, otherVars>>


----------------------------------------------------------------------------
(* POST /send-messages: the delay between two contacts *)

\* `await new Promise(resolve => setTimeout(resolve, messageDelay))` settles
Delay(s) ==
  /\ At(s, "delay")
  /\ Set(s, LoopStep([proc[s] EXCEPT !.delays = @ + 1, !.i = @ + 1], browser))
  /\ UNCHANGED <<browser, alive, nlaunch, pages, whatsappSessionState, messageDelay, lastUpdate, nreq, otherVars>>

----------------------------------------------------------------------------
(* sendWhatsAppMessage.  A call on a page rejects when the page is closed    *)
(* and may reject for any other reason (timeout, missing element).          *)

PageStep(s, at) ==
  /\ At(s, at)
  /\ UNCHANGED <<browser, alive, nlaunch, messageDelay, lastUpdate, nreq, otherVars>>

\* the inner catch (sendButtonError): the walk over okButtonSelectors starts
ProbeEnter(p) == [p EXCEPT !.pc = "probe_wait", !.sel = 1]

\* ProbeNext without the generic scan after the last selector
ProbeNextNoGeneric(p) ==
  IF p.sel < NumSelectors THEN [p EXCEPT !.pc = "probe_wait", !.sel = @ + 1]
                          ELSE [p EXCEPT !.pc = "none_close", !.sel = 0]

\* `catch (e) { /* Continue to next selector */ }`, then the generic scan
ProbeNext(p) ==
  IF p.sel < NumSelectors THEN [p EXCEPT !.pc = "probe_wait", !.sel = @ + 1]
                          ELSE [p EXCEPT !.pc = "probe_eval", !.sel = 0]

\* `await browser.newPage()` settles
SendNewPage(s) ==
  /\ PageStep(s, "send_newPage")
  /\ IF proc[s].br \in alive
       THEN /\ pages' = Append(pages, [id |-> FreshPage, br |-> proc[s].br, url |-> AboutBlank])
            /\ Set(s, [proc[s] EXCEPT !.pc = "send_goto", !.page = FreshPage,
                                      !.att.page = FreshPage, !.reap = NoReap])
       ELSE /\ Set(s, SendReturn([proc[s] EXCEPT !.reap = NoReap], 239, FALSE))
            /\ UNCHANGED pages
  /\ UNCHANGED whatsappSessionState

\* `await page.goto(url, ...)` settles; a rejection goes to the outer catch
SendGoto(s) ==
  /\ PageStep(s, "send_goto")
  /\ LET p == proc[s]
         contact == p.contacts[p.i + 1]
     IN \E ok \in BOOLEAN, url \in {AboutBlank, SendUrl(contact.phone, contact.message)} :
          /\ ok => IsOpen(pages, p.page) /\ url # AboutBlank
          /\ pages' = SetUrl(pages, p.page, url)
          /\ Set(s, IF ok THEN [p EXCEPT !.pc = "send_waitSend"]
                          ELSE SendReturn(p, 239, FALSE))
  /\ UNCHANGED whatsappSessionState

\* SendWaitSend without `timeout: 15000`: when the Send button does not
\* appear the wait never settles
SendWaitSendNoTimeout(s) ==
  /\ PageStep(s, "send_waitSend")
  /\ \E ok \in BOOLEAN :
       /\ ok => IsOpen(pages, proc[s].page)
       /\ Set(s, [proc[s] EXCEPT !.pc = IF ok THEN "send_click" ELSE "pending"])
  /\ UNCHANGED <<pages, whatsappSessionState>>

\* `await page.waitForSelector('[aria-label="Send"]')` settles
SendWaitSend(s) ==
  /\ PageStep(s, "send_waitSend")
  /\ \E ok \in BOOLEAN :
       /\ ok => IsOpen(pages, proc[s].page)
       /\ Set(s, IF ok THEN [proc[s] EXCEPT !.pc = "send_click"] ELSE ProbeEnter(proc[s]))
  /\ UNCHANGED <<pages, whatsappSessionState>>

\* SendClick without the wait between the click and page.close()
SendClickNoPace(s) ==
  /\ PageStep(s, "send_click")
  /\ \E ok \in BOOLEAN :
       /\ ok => IsOpen(pages, proc[s].page)
       /\ Set(s, IF ok THEN [proc[s] EXCEPT !.pc = "send_close", !.att.clicked = TRUE]
                       ELSE ProbeEnter(proc[s]))
  /\ UNCHANGED <<pages, whatsappSessionState>>

\* `await page.click('[aria-label="Send"]')` settles
SendClick(s) ==
  /\ PageStep(s, "send_click")
  /\ \E ok \in BOOLEAN :
       /\ ok => IsOpen(pages, proc[s].page)
       /\ Set(s, IF ok THEN [proc[s] EXCEPT !.pc = "send_pace", !.att.clicked = TRUE]
                       ELSE ProbeEnter(proc[s]))
  /\ UNCHANGED <<pages, whatsappSessionState>>

\* `await page.waitForTimeout(1500)` after the click settles
SendPace(s) ==
  /\ PageStep(s, "send_pace")
  /\ \E ok \in BOOLEAN :
       Set(s, IF ok THEN [proc[s] EXCEPT !.pc = "send_close", !.att.paced = TRUE]
                    ELSE ProbeEnter(proc[s]))
  /\ UNCHANGED <<pages, whatsappSessionState>>

\* SendClose without the catch (sendButtonError): a rejected close reaches the
\* handler
SendCloseThrows(s) ==
  /\ PageStep(s, "send_close")
  /\ LET p == [proc[s] EXCEPT !.att.closeTried = TRUE, !.att.paced = FALSE]
     IN \E ok \in BOOLEAN :
          /\ ok => IsOpen(pages, p.page)
          /\ pages' = IF ok THEN RemovePage(pages, p.page) ELSE pages
          /\ Set(s, IF ok THEN SendReturn(p, 167, TRUE) ELSE Respond(p, 500))
          /\ whatsappSessionState' =
               IF ok THEN [whatsappSessionState EXCEPT !.lastActivity = "Date"]
                     ELSE whatsappSessionState

\* `await page.close()` settles; `return true` (line 167)
SendClose(s) ==
  /\ PageStep(s, "send_close")
  /\ LET p == [proc[s] EXCEPT !.att.closeTried = TRUE, !.att.paced = FALSE]
     IN \E ok \in BOOLEAN :
          /\ ok => IsOpen(pages, p.page)
          /\ pages' = IF ok THEN RemovePage(pages, p.page) ELSE pages
          /\ Set(s, IF ok THEN SendReturn(p, 167, TRUE) ELSE ProbeEnter(p))
          /\ whatsappSessionState' =
               IF ok THEN [whatsappSessionState EXCEPT !.lastActivity = "Date"]
                     ELSE whatsappSessionState

\* `await page.waitForSelector(selector, { timeout: 3000 })` of the walk settles
ProbeWait(s) ==
  /\ PageStep(s, "probe_wait")
  /\ \E ok \in BOOLEAN :
       /\ ok => IsOpen(pages, proc[s].page) /\ ValidCss(proc[s].sel)
       /\ Set(s, IF ok THEN [proc[s] EXCEPT !.pc = "probe_click"] ELSE ProbeNext(proc[s]))
  /\ UNCHANGED <<pages, whatsappSessionState>>

\* `await page.click(selector)` of the walk settles
ProbeClick(s) ==
  /\ PageStep(s, "probe_click")
  /\ \E ok \in BOOLEAN :
       /\ ok => IsOpen(pages, proc[s].page)
       /\ Set(s, IF ok THEN [proc[s] EXCEPT !.pc = "ok_pace", !.sel = 0,
                                           !.att.hit = TRUE]
                       ELSE ProbeNext(proc[s]))
  /\ UNCHANGED <<pages, whatsappSessionState>>

\* `await page.evaluateHandle(...)` settles: an element, nothing, or a rejection
ProbeEval(s) ==
  /\ PageStep(s, "probe_eval")
  /\ \E found \in {"element", "undefined", "throw"} :
       /\ found # "throw" => IsOpen(pages, proc[s].page)
       /\ Set(s, [proc[s] EXCEPT !.pc = CASE found = "element"   -> "probe_gclick"
                                          [] found = "undefined" -> "none_close"
                                          [] found = "throw"     -> "err_close"])
  /\ UNCHANGED <<pages, whatsappSessionState>>

\* `await okButton.asElement().click()` settles
ProbeGenericClick(s) ==
  /\ PageStep(s, "probe_gclick")
  /\ \E ok \in BOOLEAN :
       /\ ok => IsOpen(pages, proc[s].page)
       /\ Set(s, [proc[s] EXCEPT !.pc = IF ok THEN "ok_pace" ELSE "err_close",
                                 !.att.hit = ok])
  /\ UNCHANGED <<pages, whatsappSessionState>>

\* `await page.waitForTimeout(1500)` after the OK click settles
OkPace(s) ==
  /\ PageStep(s, "ok_pace")
  /\ \E ok \in BOOLEAN :
       Set(s, [proc[s] EXCEPT !.pc = IF ok THEN "ok_close" ELSE "err_close",
                              !.att.paced = ok])
  /\ UNCHANGED <<pages, whatsappSessionState>>

\* a `await page.close()` of the inner handler settles: line 220 (`return
\* false`, line 223), line 226 (line 227) or line 232 (line 233); a rejection
\* of the first two goes to the catch that holds the third, a rejection of
\* the third to the outer catch (line 239)
CloseAndReturn(s, at, site, ret, onThrow) ==
  /\ PageStep(s, at)
  /\ LET p == [proc[s] EXCEPT !.att.closeTried = TRUE, !.att.paced = FALSE]
     IN \E ok \in BOOLEAN :
          /\ ok => IsOpen(pages, p.page)
          /\ pages' = IF ok THEN RemovePage(pages, p.page) ELSE pages
          /\ Set(s, IF ok THEN SendReturn(p, site, ret)
                    ELSE IF onThrow = "return" THEN SendReturn(p, 239, FALSE)
                    ELSE [p EXCEPT !.pc = onThrow])
  /\ UNCHANGED whatsappSessionState

\* OkClose with `return true` once the invalid-number dialog is dismissed
OkCloseReturnsTrue(s) == CloseAndReturn(s, "ok_close", 223, TRUE, "err_close")

OkClose(s) == CloseAndReturn(s, "ok_close", 223, FALSE, "err_close")

\* NoneClose with `return true` when no OK button was found
NoneCloseReturnsTrue(s) == CloseAndReturn(s, "none_close", 227, TRUE, "err_close")

NoneClose(s) == CloseAndReturn(s, "none_close", 227, FALSE, "err_close")
ErrClose(s) == CloseAndReturn(s, "err_close", 233, FALSE, "return")

----------------------------------------------------------------------------
(* Specification *)

OwnPage(s) ==
  \/ SendWaitSend(s) \/ SendClick(s) \/ SendPace(s) \/ ProbeWait(s)
  \/ ProbeClick(s) \/ ProbeEval(s) \/ ProbeGenericClick(s) \/ OkPace(s)

Send(s) ==
  \/ SendNewPage(s) \/ SendGoto(s) \/ SendClose(s)
  \/ OkClose(s) \/ NoneClose(s) \/ ErrClose(s) \/ OwnPage(s)

Reap(s) == ReapPages(s) \/ ReapClose(s) \/ ReapPages2(s)

Request(s, lists, delays) ==
  \/ \E contacts \in lists, delay \in delays : SendMessagesReq(s, contacts, delay)
  \/ InitWhatsappReq(s)
  \/ CloseWhatsappReq(s)
  \/ StatusReq(s)

Handler(s) ==
  \/ StatusPages(s) \/ Reap(s) \/ InitNewPage(s) \/ InitGoto(s)
  \/ Delay(s) \/ Send(s) \/ Release(s)

Environment ==
  \/ ListenCallback
  \/ \E s \in Procs : IbLaunch(s)
  \/ \E b \in alive : BrowserDies(b)

\* requests that overlap each other
Next ==
  \/ Environment
  \/ \E s \in Slots : Handler(s)
  \/ \E s \in Slots : Request(s, ContactLists(OverlapRecipients, MaxContacts), {NoDelay})

\* one request at a time, over every kind of contact
NextBatch ==
  \/ Environment
  \/ \E s \in Slots : Handler(s)
  \/ Request(1, ContactLists(Recipients, MaxContacts), {NoDelay})

\* a send request that is the first request of the run
FirstSendMessagesReq(contacts, delay) ==
  /\ nreq = MaxRequests
  /\ SendMessagesReq(1, contacts, delay)

\* a send request with any `delay`, then status requests one at a time, and
\* delay updates at any moment
NextDelay ==
  \/ Environment
  \/ \E s \in Slots : StatusPages(s) \/ ReapPages(s) \/ ReapPages2(s)
  \/ \E s \in Slots : Delay(s) \/ Send(s) \/ Release(s)
  \/ \E contacts \in ContactLists(DelayRecipients, MaxContacts), delay \in DelayInputs :
       FirstSendMessagesReq(contacts, delay)
  \/ StatusReq(1)
  \/ \E s \in Slots, delay \in DelayInputs : UpdateDelayReq(s, delay)

\* init, close, status and single-contact send requests, one at a time
NextReap ==
  \/ Environment
  \/ \E s \in Slots : StatusPages(s) \/ Reap(s) \/ InitNewPage(s) \/ InitGoto(s)
  \/ \E s \in Slots : Send(s) \/ Release(s)
  \/ \E contacts \in [1..1 -> DelayRecipients] : SendMessagesReq(1, contacts, NoDelay)
  \/ InitWhatsappReq(1)
  \/ CloseWhatsappReq(1)
  \/ StatusReq(1)

\* an init request that arrives once the start-up call has returned
LaterInitWhatsappReq(s) ==
  /\ proc[Listen].pc = "done"
  /\ InitWhatsappReq(s)

\* once the start-up call has returned: initBrowser called again, init and
\* status requests, one at a time
NextStart ==
  \/ Environment
  \/ \E s \in Slots : IbClose(s) \/ StatusPages(s) \/ Release(s)
  \/ \E s \in Slots : ReapPages(s) \/ ReapClose(s) \/ InitNewPage(s) \/ InitGoto(s)
  \/ StartCall(1)
  \/ LaterInitWhatsappReq(1)
  \/ StatusReq(1)

\* the requests of NextReap, and SIGINT at any moment
NextSignal ==
  \/ NextReap
  \/ Sigint
  \/ SigClose

----------------------------------------------------------------------------
(* The legacy server, src/server.js *)

LegacySet(s, q) == legacyProc' = [legacyProc EXCEPT ![s] = q]
LegacyRespond(p, code) == [p EXCEPT !.pc = "done", !.status = code]
LegacyAt(s, at) == legacyProc[s].pc = at

\* a request reaches a free handler of the legacy server
LegacyAccept(s) ==
  /\ legacyProc[s].kind = "idle"
  /\ \A u \in Slots : u < s => legacyProc[u].kind # "idle"
  /\ legacy.nreq > 0

\* POST /api/init-whatsapp up to its first await: `await browser.close()`
\* when `browser` is set, with `isWhatsAppReady = false` only after it
LegacyInitReq(s) ==
  /\ LegacyAccept(s)
  /\ IF legacy.browser # 0
       THEN /\ LegacySet(s, [LegacyIdle EXCEPT !.kind = "init", !.pc = "init_close",
                                               !.br = legacy.browser])
            /\ legacy' = [legacy EXCEPT !.nreq = @ - 1]
       ELSE /\ LegacySet(s, [LegacyIdle EXCEPT !.kind = "init", !.pc = "launch"])
            /\ legacy' = [legacy EXCEPT !.nreq = @ - 1, !.isWhatsAppReady = FALSE]
  /\ UNCHANGED <<serverVars, whatsappReady, checkInterval>>

\* `await browser.close()` of the init request settles: the browser ends and
\* the handler sets `isWhatsAppReady = false` and calls initWhatsApp; on a
\* browser that is gone the close may reject, which the handler's catch
\* answers with 500
LegacyInitClose(s) ==
  /\ LegacyAt(s, "init_close")
  /\ \E ok \in BOOLEAN :
       /\ legacyProc[s].br \in legacy.alive => ok
       /\ IF ok
            THEN /\ legacy' = [legacy EXCEPT !.alive = @ \ {legacyProc[s].br},
                                             !.isWhatsAppReady = FALSE]
                 /\ LegacySet(s, [legacyProc[s] EXCEPT !.pc = "launch", !.br = 0])
            ELSE /\ LegacySet(s, LegacyRespond(legacyProc[s], 500))
                 /\ UNCHANGED legacy
  /\ UNCHANGED <<serverVars, whatsappReady, checkInterval>>

\* initWhatsApp: `browser = await puppeteer.launch(...)` settles
LegacyLaunch(s) ==
  /\ LegacyAt(s, "launch")
  /\ \E ok \in BOOLEAN :
       IF ok
         THEN /\ legacy' = [legacy EXCEPT !.nlaunch = @ + 1, !.browser = legacy.nlaunch + 1,
                                          !.alive = @ \cup {legacy.nlaunch + 1}]
              /\ LegacySet(s, [legacyProc[s] EXCEPT !.pc = "init_newPage",
                                                    !.br = legacy.nlaunch + 1])
         ELSE /\ LegacySet(s, LegacyRespond(legacyProc[s], 500))
              /\ UNCHANGED legacy
  /\ UNCHANGED <<serverVars, whatsappReady, checkInterval>>

\* initWhatsApp: `await browser.newPage()` and `await page.goto(...)` settle
LegacyInitOpen(s) ==
  /\ LegacyAt(s, "init_newPage")
  /\ \E ok \in BOOLEAN :
       /\ ok => legacyProc[s].br \in legacy.alive
       /\ LegacySet(s, IF ok THEN [legacyProc[s] EXCEPT !.pc = "init_wait"]
                             ELSE LegacyRespond(legacyProc[s], 500))
  /\ UNCHANGED <<serverVars, legacy, whatsappReady, checkInterval>>

\* initWhatsApp: `await page.waitForSelector('._main', ...)` settles and its
\* then or catch sets isWhatsAppReady, which the handler answers by
LegacyInitWait(s) ==
  /\ LegacyAt(s, "init_wait")
  /\ \E ok \in BOOLEAN :
       /\ ok => legacyProc[s].br \in legacy.alive
       /\ legacy' = [legacy EXCEPT !.isWhatsAppReady = ok]
       /\ LegacySet(s, LegacyRespond(legacyProc[s], IF ok THEN 200 ELSE 500))
  /\ UNCHANGED <<serverVars, whatsappReady, checkInterval>>

\* POST /api/send-whatsapp with n contacts up to `await browser.newPage()`:
\* 400 without contacts or message, 503 when isWhatsAppReady is false
LegacySendReq(s, n, valid) ==
  /\ LegacyAccept(s)
  /\ legacy' = [legacy EXCEPT !.nreq = @ - 1]
  /\ LET p == [LegacyIdle EXCEPT !.kind = "send", !.left = n]
     IN LegacySet(s, IF ~valid THEN LegacyRespond(p, 400)
                     ELSE IF ~legacy.isWhatsAppReady THEN LegacyRespond(p, 503)
                     ELSE [p EXCEPT !.pc = "send_newPage", !.br = legacy.browser])
  /\ UNCHANGED <<serverVars, whatsappReady, checkInterval>>

\* the loop of POST /api/send-whatsapp from its next contact
LegacyLoop(p) ==
  IF p.left = 0 THEN [p EXCEPT !.pc = "send_close"] ELSE [p EXCEPT !.pc = "send_message"]

\* `await browser.newPage()` of the send request settles
LegacySendNewPage(s) ==
  /\ LegacyAt(s, "send_newPage")
  /\ LegacySet(s, IF legacyProc[s].br \in legacy.alive
                    THEN LegacyLoop(legacyProc[s])
                    ELSE LegacyRespond(legacyProc[s], 500))
  /\ UNCHANGED <<serverVars, legacy, whatsappReady, checkInterval>>

\* `await sendWhatsAppMessage(page, ...)` returns true or false; every await
\* of it rejects on a browser that is gone
LegacySendMessage(s) ==
  /\ LegacyAt(s, "send_message")
  /\ \E ok \in BOOLEAN :
       /\ ok => legacyProc[s].br \in legacy.alive
       /\ LegacySet(s, LegacyLoop([legacyProc[s] EXCEPT
                                     !.left = @ - 1,
                                     !.successCount = IF ok THEN @ + 1 ELSE @,
                                     !.failCount = IF ok THEN @ ELSE @ + 1]))
  /\ UNCHANGED <<serverVars, legacy, whatsappReady, checkInterval>>

\* `await page.close()` of the send request settles
LegacySendClose(s) ==
  /\ LegacyAt(s, "send_close")
  /\ LegacySet(s, LegacyRespond(legacyProc[s],
                                IF legacyProc[s].br \in legacy.alive THEN 200 ELSE 500))
  /\ UNCHANGED <<serverVars, legacy, whatsappReady, checkInterval>>

\* the response is written and the handler ends
LegacyRelease(s) ==
  /\ LegacyAt(s, "done")
  /\ LegacySet(s, LegacyIdle)
  /\ UNCHANGED <<serverVars, legacy, whatsappReady, checkInterval>>

\* the legacy server: init and send requests that may overlap
NextLegacy ==
  \/ \E s \in Slots : LegacyInitReq(s)
  \/ \E s \in Slots, n \in 1..MaxContacts, valid \in BOOLEAN : LegacySendReq(s, n, valid)
  \/ \E s \in Slots : LegacyInitClose(s) \/ LegacyLaunch(s) \/ LegacyInitOpen(s)
  \/ \E s \in Slots : LegacyInitWait(s) \/ LegacySendNewPage(s)
  \/ \E s \in Slots : LegacySendMessage(s) \/ LegacySendClose(s) \/ LegacyRelease(s)

SpecLegacy == Init /\ [][NextLegacy]_vars

----------------------------------------------------------------------------
(* The frontend: status polling of the React component *)

\* the period of the polling started by initializeWhatsApp and the time
\* after which it is cleared, in milliseconds
CheckEvery == 5000
CheckFor == 120000

\* the callbacks of the interval that are due when the timeout is
LastTick == CheckFor \div CheckEvery

\* checkWhatsAppStatus run by the effect at mount and every 30 seconds: the
\* request settles and `setWhatsappReady` stores the answer, false when the
\* request failed
checkWhatsAppStatus(ready) ==
  /\ whatsappReady' = ready
  /\ UNCHANGED <<serverVars, legacy, legacyProc, checkInterval>>

\* the button calls the initializeWhatsApp of the last render, which closed
\* over the whatsappReady of that render, up to `await axios.post(...)`; one
\* polling at a time
initializeWhatsApp ==
  /\ ~checkInterval.posting /\ ~checkInterval.set
  /\ checkInterval' = [NoInterval EXCEPT !.posting = TRUE, !.seen = whatsappReady]
  /\ UNCHANGED <<serverVars, legacy, legacyProc, whatsappReady>>

\* `await axios.post(API_INIT_URL)` settles: on a response setInterval and
\* setTimeout are called, on an error neither
initializeSettles(ok) ==
  /\ checkInterval.posting
  /\ checkInterval' = [checkInterval EXCEPT !.posting = FALSE, !.set = ok]
  /\ UNCHANGED <<serverVars, legacy, legacyProc, whatsappReady>>

\* a callback of the interval: `await checkWhatsAppStatus()` stores the
\* answer, then `if (whatsappReady)` reads the constant of the render that
\* initializeWhatsApp closed over and clears the interval when it is true
checkIntervalCallback(ready) ==
  /\ checkInterval.set
  /\ checkInterval.ticks < LastTick
  /\ whatsappReady' = ready
  /\ checkInterval' = [checkInterval EXCEPT !.ticks = @ + 1,
                                            !.reported = @ \/ ready,
                                            !.set = ~checkInterval.seen]
  /\ UNCHANGED <<serverVars, legacy, legacyProc>>

\* the timeout clears the interval; the callback due at the same moment
\* runs before it or not at all
checkIntervalTimeout ==
  /\ checkInterval.set
  /\ checkInterval.ticks >= LastTick - 1
  /\ checkInterval' = [checkInterval EXCEPT !.set = FALSE]
  /\ UNCHANGED <<serverVars, legacy, legacyProc, whatsappReady>>

NextFrontend ==
  \/ \E ready \in BOOLEAN : checkWhatsAppStatus(ready)
  \/ initializeWhatsApp
  \/ \E ok \in BOOLEAN : initializeSettles(ok)
  \/ \E ready \in BOOLEAN : checkIntervalCallback(ready)
  \/ checkIntervalTimeout

SpecFrontend == Init /\ [][NextFrontend]_vars

----------------------------------------------------------------------------
(* Specifications of the backend *)

\* sendWhatsAppMessage called directly, at any moment after start-up began,
\* one call at a time
NextSend ==
  \/ Environment
  \/ \E s \in Slots : Send(s) \/ Release(s)
  \/ \E contact \in DelayRecipients : SendCall(1, contact)

\* a send request that is not the first request of the run
LaterSendMessagesReq(contacts, delay) ==
  /\ nreq < MaxRequests
  /\ SendMessagesReq(1, contacts, delay)

\* send requests only, one at a time: the first with one contact, which may
\* leave its page open, the later ones with any contact list
NextLive ==
  \/ Environment
  \/ \E s \in Slots : Reap(s) \/ Delay(s) \/ Send(s) \/ Release(s)
  \/ \E contacts \in [1..1 -> DelayRecipients] : FirstSendMessagesReq(contacts, NoDelay)
  \/ \E contacts \in ContactLists(Recipients, MaxContacts) :
       LaterSendMessagesReq(contacts, NoDelay)

\* every await settles: each one is a call of Puppeteer that resolves or
\* rejects within its timeout (launch 30 s by default, goto 60 s,
\* waitForSelector 15 s and 3 s, waitForTimeout 1.5 s) or a protocol call on
\* the browser, and `setTimeout` fires
Settles ==
  /\ WF_vars(ListenCallback)
  /\ \A s \in Procs : WF_vars(IbLaunch(s))
  /\ \A s \in Slots : WF_vars(Reap(s) \/ Delay(s) \/ Send(s) \/ Release(s))

\* an init or close request that is not the first request of the run
ResetReq(s) ==
  /\ nreq < MaxRequests
  /\ (InitWhatsappReq(s) \/ CloseWhatsappReq(s))

\* the steps of a send request and of an init or close request
Steps(s) ==
  \/ Reap(s) \/ InitNewPage(s) \/ InitGoto(s)
  \/ Delay(s) \/ Send(s) \/ Release(s)

\* a send request with a full contact list as the first request, and init
\* and close requests at any moment after it arrived; the browser does not
\* end by itself
NextReset ==
  \/ ListenCallback
  \/ \E s \in Procs : IbLaunch(s)
  \/ \E s \in Slots : Steps(s)
  \/ \E contacts \in [1..MaxContacts -> DelayRecipients] :
       FirstSendMessagesReq(contacts, NoDelay)
  \/ \E s \in Slots : ResetReq(s)

\* every await of these requests settles
StepsSettle ==
  /\ WF_vars(ListenCallback)
  /\ \A s \in Procs : WF_vars(IbLaunch(s))
  /\ \A s \in Slots : WF_vars(Steps(s))

Spec == Init /\ [][Next]_vars
SpecReset == Init /\ [][NextReset]_vars /\ StepsSettle
SpecLive == Init /\ [][NextLive]_vars /\ Settles
SpecSend == InitReap /\ [][NextSend]_vars
SpecSignal == Init /\ [][NextSignal]_vars
SpecReap == InitReap /\ [][NextReap]_vars
SpecStart == InitReap /\ [][NextStart]_vars
SpecBatch == Init /\ [][NextBatch]_vars
SpecDelay == Init /\ [][NextDelay]_vars


----------------------------------------------------------------------------
(* Properties *)

Batch(s) == proc[s].kind = "batch"
\* the send request of slot s answers with its counts
Result(s) == Batch(s) /\ proc[s].pc = "done" /\ proc[s].status = 200
N(s) == Len(proc[s].contacts)
Range(f) == { f[k] : k \in 1..Len(f) }

\* a field that is absent or the empty string
IsBlank(v) == v = Undefined \/ Len(v) = 0
BlankContact(c) == IsBlank(c.phone) \/ IsBlank(c.message)

\* a call of sendWhatsAppMessage has opened its page and has not returned
InFlight(s) == Batch(s) /\ proc[s].att.page # 0 /\ proc[s].att.site = 0

\* C1: at most one launched browser is alive (launched and neither closed
\* nor dead) at any time, under any interleaving of the start-up launch and
\* the launches of the init and send requests.
OneBrowserAlive == Cardinality(alive) <= 1

\* C2: at most one call of sendWhatsAppMessage is between opening its page
\* and returning at any time, also when two send requests overlap.
OneSendInFlight == Cardinality({ s \in Slots : InFlight(s) }) <= 1

\* C3: in every reachable state the session record has active = true exactly
\* when its activeTabs list is non-empty.
ActiveIffTabs ==
  whatsappSessionState.active <=> (whatsappSessionState.activeTabs # <<>>)

\* C4: when a send request answers with counts, successCount + failCount is
\* the number of contacts, and every blank contact is counted in failCount.
CountsCoverBatch ==
  \A s \in Slots :
    Result(s) =>
      /\ proc[s].successCount + proc[s].failCount = N(s)
      /\ proc[s].failCount >=
           Cardinality({ k \in 1..N(s) : BlankContact(proc[s].contacts[k]) })

\* C4 witness: a batch of two answered with one sent and one blank contact
CountsCoverBatchWitness ==
  \E s \in Slots :
    /\ Result(s) /\ N(s) = 2
    /\ BlankContact(proc[s].contacts[1])
    /\ proc[s].successCount = 1 /\ proc[s].failCount = 1

\* C5: a contact whose phone or message is absent or empty is counted as a
\* failure and is never passed to sendWhatsAppMessage, so no page is opened
\* and no navigation is made for it.
BlankNeverSent ==
  \A s \in Slots :
    Batch(s) =>
      /\ \A k \in Range(proc[s].calls) : ~BlankContact(proc[s].contacts[k])
      /\ proc[s].failCount >=
           Cardinality({ k \in Range(proc[s].visited) : BlankContact(proc[s].contacts[k]) })
      /\ proc[s].att.page # 0 =>
           ~BlankContact(proc[s].contacts[proc[s].calls[Len(proc[s].calls)]])

\* C5 witness: a batch answered after its loop visited a blank contact and
\* a full one, with one call of sendWhatsAppMessage
BlankNeverSentWitness ==
  \E s \in Slots :
    /\ Result(s) /\ N(s) = 2
    /\ BlankContact(proc[s].contacts[2])
    /\ proc[s].calls = <<1>> /\ proc[s].visited = <<1, 2>>
    /\ proc[s].failCount >= 1

\* C6 as claimed: a batch of N contacts that runs to completion takes
\* exactly N-1 delays, and none when N <= 1, whatever the contacts are.
DelaysNMinusOne ==
  \A s \in Slots :
    Result(s) => proc[s].delays = IF N(s) <= 1 THEN 0 ELSE N(s) - 1

\* C6 as amended: a batch that runs to completion takes one delay after
\* each contact that is not blank and not the last of the list; that is N-1
\* delays when none of the first N-1 contacts is blank, and none when N <= 1.
DelaysFollowSends ==
  \A s \in Slots :
    Result(s) =>
      proc[s].delays =
        Cardinality({ k \in 1..(N(s) - 1) : ~BlankContact(proc[s].contacts[k]) })

\* C6 witness: a batch of two answered after a blank contact and a full one
DelaysFollowSendsWitness ==
  \E s \in Slots :
    /\ Result(s) /\ N(s) = 2
    /\ BlankContact(proc[s].contacts[1]) /\ ~BlankContact(proc[s].contacts[2])
    /\ proc[s].delays = 0

\* C7: the loop visits the contacts in input order whatever the earlier
\* outcomes were, and a batch that answers has visited every contact.
InputOrderNoAbort ==
  \A s \in Slots :
    Batch(s) =>
      /\ proc[s].visited = [k \in 1..Len(proc[s].visited) |-> k]
      /\ Len(proc[s].visited) <= N(s)
      /\ Result(s) => Len(proc[s].visited) = N(s)

\* C7 witness: a batch of two answered whose first send failed and whose
\* second send succeeded
InputOrderNoAbortWitness ==
  \E s \in Slots :
    /\ Result(s) /\ proc[s].calls = <<1, 2>>
    /\ proc[s].failCount = 1 /\ proc[s].successCount = 1
    /\ proc[s].att.site = 167

\* C8: a send request answers with an error (500) only when the launch of
\* its lazy initialization failed; a rejected navigation, wait, click or
\* close never escapes, so a batch whose every send failed answers with
\* counts.  (An empty contact list is refused with 400 before the batch.)
OnlyLaunchFailureIsFatal ==
  \A s \in Slots :
    Batch(s) /\ proc[s].pc = "done" =>
      /\ proc[s].status \in {200, 400, 500}
      /\ proc[s].status = 500 <=> proc[s].launchFailed
      /\ proc[s].status = 400 <=> N(s) = 0

\* C8 witness: a batch of two answered with counts after both sends failed,
\* the last one through the outer catch
OnlyLaunchFailureIsFatalWitness ==
  \E s \in Slots :
    /\ Result(s) /\ proc[s].calls = <<1, 2>>
    /\ proc[s].successCount = 0 /\ proc[s].failCount = 2
    /\ proc[s].att.site = 239

\* C9: once a call of sendWhatsAppMessage has returned, the page it opened
\* is no longer open or its close was at least attempted.
SurfaceClosedOnReturn ==
  \A s \in Slots :
    Batch(s) /\ proc[s].att.site # 0 /\ proc[s].att.page # 0 =>
      ~IsOpen(pages, proc[s].att.page) \/ proc[s].att.closeTried

\* C10 as claimed: the returned value tells Sent, Rejected and Failed apart;
\* two calls with different outcomes never return the same value.
TriStateReturn ==
  \A s \in Slots :
    \A a, b \in proc[s].returned : a[2] = b[2] => a[1] = b[1]

\* C10 as amended: sendWhatsAppMessage returns a boolean, true exactly when
\* the outcome is Sent; Rejected and Failed both return false and differ
\* only in the log.
BooleanReturn ==
  \A s \in Slots :
    \A a \in proc[s].returned : a[2] <=> (a[1] = "Sent")

\* C10 witness: one batch saw a Rejected and a Failed send, both returned
\* as false
BooleanReturnWitness ==
  \E s \in Slots :
    {<<"Rejected", FALSE>>, <<"Failed", FALSE>>} \subseteq proc[s].returned

----------------------------------------------------------------------------
(* Properties of the message delay *)

Update(s) == proc[s].kind = "update"
Answered(s) == proc[s].pc = "done"

\* messageDelay once the send request of slot s had applied its own `delay`
StartDelay(s) ==
  IF proc[s].arg.type = "number" /\ proc[s].arg.n >= MinDelay
    THEN proc[s].arg.n
    ELSE proc[s].before

\* C11: messageDelay is at least 1000 ms in every reachable state, whatever
\* `delay` the update-delay and send requests carry.
DelayAtLeastMin == messageDelay >= MinDelay

\* C11 witness: an update request with 500 was answered while messageDelay
\* stood at the minimum
DelayAtLeastMinWitness ==
  \E s \in Slots :
    Update(s) /\ Answered(s) /\ proc[s].arg = Num(500) /\ messageDelay = MinDelay

\* C12: an update request whose `delay` is missing, is not a number or is
\* below 1000 is answered with 400 and leaves messageDelay as it was.
UpdateBelowMinRejected ==
  \A s \in Slots :
    Update(s) /\ Answered(s)
      /\ (proc[s].arg.type # "number" \/ proc[s].arg.n < MinDelay) =>
        /\ proc[s].status = 400
        /\ messageDelay = proc[s].before
        /\ proc[s].delay = 0

\* C12 witness: an update request with the string "2000" was answered with
\* 400 after an earlier request had moved messageDelay off its default
UpdateBelowMinRejectedWitness ==
  \E s \in Slots :
    /\ Update(s) /\ Answered(s) /\ proc[s].arg = Str(2000)
    /\ proc[s].status = 400
    /\ messageDelay = MinDelay /\ proc[s].before = MinDelay

\* C13: an update request with a number of at least 1000 is answered with
\* 200 and sets messageDelay to it, and a status request answered with no
\* other delay update in between reports that number as `delay`.
UpdateThenStatus ==
  \A s \in Slots :
    /\ Update(s) /\ Answered(s)
         /\ proc[s].arg.type = "number" /\ proc[s].arg.n >= MinDelay =>
           /\ proc[s].status = 200
           /\ messageDelay = proc[s].arg.n
           /\ proc[s].delay = proc[s].arg.n
    /\ proc[s].kind = "status" /\ Answered(s) /\ lastUpdate # 0 =>
           proc[s].delay = lastUpdate

\* C13 witness: a status request that enumerated the pages was answered
\* after an update to 2000
UpdateThenStatusWitness ==
  \E s \in Slots :
    /\ proc[s].kind = "status" /\ Answered(s) /\ proc[s].status = 200
    /\ browser # 0
    /\ lastUpdate = 2000 /\ proc[s].delay = 2000

\* C14: every timer of a send request is set with the messageDelay that was
\* in effect when the request started (after its own `delay` was applied),
\* and the `delay` of its response is that value, also when another request
\* changes messageDelay meanwhile.
DelayFixedPerBatch ==
  \A s \in Slots :
    Batch(s) =>
      /\ proc[s].used \subseteq {StartDelay(s)}
      /\ Result(s) => proc[s].delay = StartDelay(s)

\* the step is POST /send-messages with a contact list, arriving in slot s
SendBatchStarts(s) ==
  proc[s].kind = "idle" /\ proc'[s].kind = "batch" /\ Len(proc'[s].contacts) > 0

\* C27: when a send request with a contact list arrives, a `delay` that is a
\* number of at least 1000 becomes messageDelay, and with any other `delay`
\* (none, a smaller number, not a number) messageDelay stays as it was; in
\* both cases the handler goes on to closeExistingWhatsAppTabs, and the
\* request is never answered 400.
OverrideAtBatchStart ==
  [][\A s \in Slots :
       /\ SendBatchStarts(s) =>
            /\ messageDelay' = IF proc'[s].arg.type = "number" /\ proc'[s].arg.n >= MinDelay
                                 THEN proc'[s].arg.n
                                 ELSE messageDelay
            /\ proc'[s].pc \in {"reap_pages", "ib_launch"}
       /\ proc'[s].kind = "batch" /\ Len(proc'[s].contacts) > 0 /\ proc'[s].pc = "done" =>
            proc'[s].status # 400]_vars

\* C27 witness: a send request with `delay` 500 was answered 200 after a
\* send, with messageDelay as it was when the request arrived
OverrideAtBatchStartWitness ==
  \E s \in Slots :
    /\ Result(s) /\ proc[s].arg = Num(500) /\ proc[s].calls # <<>>
    /\ messageDelay = proc[s].before

----------------------------------------------------------------------------
(* Properties of closeExistingWhatsAppTabs and of the status request *)

\* the session records a status request arriving now can answer with: the
\* stored one when there is no browser or browser.pages() rejects, the
\* recomputed one when it resolves
StatusNow ==
  IF browser = 0
    THEN {whatsappSessionState}
    ELSE {Recount(whatsappSessionState, pages, browser)}
           \cup (IF browser \in alive THEN {} ELSE {whatsappSessionState})

Inactive(st) == ~st.active /\ st.activeTabs = <<>>

\* the close request of slot s was answered: its force close has returned
ForceCloseDone(s) == proc[s].kind = "close" /\ Answered(s)

\* the send request of slot s is just past its soft close, which listed the
\* pages
SoftCloseDone(s) == Batch(s) /\ proc[s].reap.ended /\ proc[s].reap.ran

\* C15: a status request right after a force close answers active = false
\* and activeTabs = [], in every state and also when a page.close() of the
\* force close rejected.
ForceCloseThenStatus ==
  \A s \in Slots :
    ForceCloseDone(s) => \A st \in StatusNow : Inactive(st)

\* C16: after a soft close that found only pages with the send marker,
\* active = false and activeTabs = []; after one that found a page without
\* it as well, active = true and activeTabs holds exactly the URLs of the
\* pages without it.
SoftCloseOutcome ==
  \A s \in Slots :
    SoftCloseDone(s) =>
      /\ proc[s].reap.primary = <<>> /\ proc[s].reap.ephemeral =>
            Inactive(whatsappSessionState)
      /\ proc[s].reap.primary # <<>> =>
            /\ whatsappSessionState.active
            /\ whatsappSessionState.activeTabs = proc[s].reap.primary

\* C17: when a status request is answered with 200 while `browser` is set,
\* activeTabs holds exactly the URLs of the WhatsApp pages open at that
\* moment and active says whether there is one.
StatusExact ==
  \A s \in Slots :
    proc[s].kind = "status" /\ Answered(s) /\ proc[s].status = 200
        /\ browser # 0 =>
      LET open == SelectSeq(pages, LAMBDA g : Includes(g.url, Site))
      IN /\ whatsappSessionState.activeTabs = Urls(open)
         /\ whatsappSessionState.active = (open # <<>>)

----------------------------------------------------------------------------
(* Properties of initBrowser and of the init request *)

\* the direct initBrowser call of slot s has returned a browser
Started(s) == proc[s].kind = "start" /\ Answered(s) /\ proc[s].status = 200

LaunchFailureIsHard ==
  \A s \in Slots :
    proc[s].launchFailed =>
      /\ Answered(s) /\ proc[s].status = 500
      /\ ~whatsappSessionState.initialized
      /\ proc[s].calls = <<>> /\ proc[s].att = NoAttempt
      /\ "open" \notin Range(proc[s].steps)

\* C19 witness: a send request with a contact to send to was answered with
\* 500 after its launch failed
LaunchFailureIsHardWitness ==
  \E s \in Slots :
    /\ Batch(s) /\ proc[s].launchFailed /\ proc[s].status = 500
    /\ \E k \in 1..N(s) : ~BlankContact(proc[s].contacts[k])

\* the init request of slot s was answered with 200
Initialized(s) == proc[s].kind = "init" /\ Answered(s) /\ proc[s].status = 200

\* C20 as stated: an init request calls closeExistingWhatsAppTabs(true), then
\* initBrowser, then opens the page at the root URL; when it succeeds
\* active = true and activeTabs holds that page's URL alone.
InitReapStartOpen ==
  \A s \in Slots :
    Initialized(s) =>
      /\ proc[s].steps = <<"reap", "start", "launch", "open">>
      /\ whatsappSessionState.active
      /\ whatsappSessionState.activeTabs = <<RootUrl>>

\* C20: an init request calls closeExistingWhatsAppTabs(true), then
\* initBrowser when `browser` is not set (and not otherwise), then opens the
\* page at the root URL; when it succeeds active = true and activeTabs holds
\* that page's URL alone.
InitReapStartIfNoneOpen ==
  \A s \in Slots :
    Initialized(s) =>
      /\ proc[s].steps = IF proc[s].hadBrowser
                           THEN <<"reap", "open">>
                           ELSE <<"reap", "start", "launch", "open">>
      /\ whatsappSessionState.active
      /\ whatsappSessionState.activeTabs = <<RootUrl>>

\* C20 witness: an init request that found `browser` set succeeded, on a
\* browser that a second initBrowser call had launched
InitReapStartIfNoneOpenWitness ==
  \E s \in Slots :
    Initialized(s) /\ proc[s].hadBrowser /\ browser \in alive /\ nlaunch >= 2

----------------------------------------------------------------------------
(* Properties of the SIGINT handler *)

Exited == proc[Signal].pc = "exited"

\* C21: when the process has exited on SIGINT, every browser that was
\* running when the signal arrived has had its close() called and awaited
\* before the exit; it never exits with a running browser's close not yet
\* attempted.
ExitAfterClose ==
  Exited =>
    /\ proc[Signal].seen \subseteq Range(proc[Signal].closes)
    /\ proc[Signal].hadBrowser => proc[Signal].steps[1] = "close"

----------------------------------------------------------------------------
(* Properties of sendWhatsAppMessage *)

\* the current or last call of sendWhatsAppMessage of slot s has returned
Returned(s) == Batch(s) /\ proc[s].att.site # 0

\* C22: a call of sendWhatsAppMessage whose click on Send resolved returns
\* as sent and is counted in successCount, also when the wait or the
\* page.close() after the click rejects.
SentOnceClicked ==
  \A s \in Slots :
    /\ Returned(s) /\ proc[s].att.clicked => Outcome(proc[s].att.site) = "Sent"
    /\ Result(s) /\ N(s) = 1 /\ proc[s].att.clicked => proc[s].successCount = 1

\* the OK-button strategy a call is attempting: 1..5 the selectors of the
\* list, 6 the generic scan, 0 when it attempts none
Generic == NumSelectors + 1
Strategy(p) ==
  CASE p.pc \in {"probe_wait", "probe_click"}   -> p.sel
    [] p.pc \in {"probe_eval", "probe_gclick"}  -> Generic
    [] OTHER                                     -> 0

\* the awaits of the Send-button path, and those after the strategies
SendPath == {"send_waitSend", "send_click", "send_pace", "send_close"}
AfterProbe == {"ok_pace", "ok_close", "none_close", "err_close"}

\* the strategies are attempted in list order from the first one, the
\* generic scan last, and none after a click on an OK button resolved; the
\* walk ends without such a click only after the generic scan
ProbeOrder(p, q) ==
  /\ Strategy(q) # 0 /\ Strategy(q) # Strategy(p) =>
        /\ Strategy(q) = Strategy(p) + 1
        /\ Strategy(p) = 0 => p.pc \in SendPath
  /\ p.att.hit => Strategy(q) = 0
  /\ Strategy(p) # 0 /\ q.pc \in AfterProbe /\ ~q.att.hit => Strategy(p) = Generic

\* the call of slot s returns in this step
Returns(s) == proc[s].att.site = 0 /\ proc'[s].att.site # 0

Closing(s, branch) == Batch(s) /\ proc[s].pc = branch

Attempted(s) == Batch(s) /\ proc[s].calls # <<>>

\* C24: a batch that finds `browser` unset after closeExistingWhatsAppTabs
\* calls initBrowser before its loop, and only then: it waits for the launch
\* with no send attempted yet, and every send attempt finds `browser` set
\* (its newPage call is made on a browser)
BatchStartsBrowser ==
  \A s \in Slots :
    /\ Batch(s) /\ proc[s].pc = "ib_launch" =>
         ~proc[s].hadBrowser /\ proc[s].calls = <<>> /\ proc[s].i = 0
    /\ Attempted(s) => browser # 0
    /\ Batch(s) /\ proc[s].pc = "send_newPage" => proc[s].br # 0

\* a batch that found `browser` unset is in its first send attempt
BatchStartsBrowserWitness ==
  \E s \in Slots :
    Attempted(s) /\ ~proc[s].hadBrowser /\ proc[s].pc = "send_newPage"

\* the contact of the current or last sendWhatsAppMessage call of s
LastContact(s) == proc[s].contacts[proc[s].calls[Len(proc[s].calls)]]

\* C28: no delay is taken after the last sendWhatsAppMessage call of a
\* request: a request answered after k calls took at most k - 1 delays, also
\* when the contacts after the last call are skipped.
NoDelayAfterLastSend ==
  \A s \in Slots :
    Result(s) =>
      proc[s].delays <= IF Attempted(s) THEN Len(proc[s].calls) - 1 ELSE 0

\* C30: a sendWhatsAppMessage call whose phone has no digit never returns
\* from line 167 (message sent); it returns from one of the failure sites.
EmptyPhoneFails ==
  \A s \in Slots :
    Returned(s) /\ FormatPhone(LastContact(s).phone) = <<>> =>
      Outcome(proc[s].att.site) = "Failed"

\* C33: a sendWhatsAppMessage call returns from line 167 (message sent) only
\* from the close that follows its own resolved click on the Send button,
\* never from the OK-button branches or the catches; and successCount goes
\* up only by one, at the return of a call whose click resolved, so it never
\* exceeds the number of resolved clicks on Send.
SentOnlyAfterClick ==
  [][~Responding =>
       \A s \in Slots :
         Batch(s) =>
           /\ Returns(s) /\ Outcome(proc'[s].att.site) = "Sent" =>
                proc[s].pc = "send_close" /\ proc[s].att.clicked /\ ~proc[s].att.hit
           /\ proc'[s].successCount # proc[s].successCount =>
                /\ proc'[s].successCount = proc[s].successCount + 1
                /\ Returns(s) /\ proc[s].pc = "send_close" /\ proc[s].att.clicked]_vars

\* a request with two contacts was answered with one message sent, after
\* the other call had dismissed the invalid-number dialog
SentOnlyAfterClickWitness ==
  \E s \in Slots :
    /\ Result(s) /\ Len(proc[s].calls) = 2 /\ proc[s].successCount = 1
    /\ {<<"Sent", TRUE>>, <<"Rejected", FALSE>>} \subseteq proc[s].returned

(***************************************************************************)
(* Properties of the pages that are closed                                 *)
(***************************************************************************)

\* the page g is open before the step and not after it
Closed(g) == ~IsOpen(pages', g.id)

\* the step is the page.close() of closeExistingWhatsAppTabs on g, settling
ReapCloses(s, g) ==
  proc[s].pc = "reap_close" /\ Head(proc[s].whatsappPages).id = g.id

\* the step is a page.close() of sendWhatsAppMessage on g, settling
SendCloses(s, g) ==
  /\ Batch(s) /\ proc[s].pc \in {"send_close", "ok_close", "none_close", "err_close"}
  /\ proc[s].page = g.id

\* C25: a page goes away only when its browser ends, in a
\* closeExistingWhatsAppTabs that is a force close or finds the send marker
\* in the page's URL, or in the sendWhatsAppMessage call that opened it; so
\* a page without the marker that a send did not open goes away only with
\* its browser or in a force close
OnlyForceClosesPrimary ==
  [][\A k \in 1..Len(pages) :
       LET g == pages[k]
       IN Closed(g) =>
            \/ g.br \notin alive'
            \/ \E s \in Slots :
                 ReapCloses(s, g) /\ (proc[s].forceClose \/ Includes(g.url, SendMarker))
            \/ \E s \in Slots : SendCloses(s, g) /\ proc[s].att.page = g.id]_vars

\* a soft close that found a page without the marker is closing a page with
\* the marker, and the former is still open
OnlyForceClosesPrimaryWitness ==
  \E s \in Slots :
    /\ Batch(s) /\ proc[s].pc = "reap_close" /\ ~proc[s].forceClose
    /\ proc[s].reap.primary # <<>>
    /\ \E k \in 1..Len(pages) :
         pages[k].br = proc[s].br /\ ~Includes(pages[k].url, SendMarker)
           /\ pages[k].url # AboutBlank

\* closeExistingWhatsAppTabs has returned in the handler s after listing pages
ReapDone(s) == proc[s].reap.ended /\ proc[s].reap.ran

\* C26: a page.close() that rejects in closeExistingWhatsAppTabs does not end
\* its loop: when the routine returns, close has been called on every listed
\* page that is to be closed; and the routine returns to its caller, so the
\* close request, which only calls it, is always answered 200
CloseFailureKeepsLoop ==
  \A s \in Slots :
    /\ ReapDone(s) => proc[s].reap.attempted = proc[s].reap.selected
    /\ proc[s].kind = "close" /\ proc[s].pc = "done" =>
         proc[s].status = 200 /\ proc[s].reap.ended

\* the routine has returned after calling close on two pages, one of which
\* rejected
CloseFailureKeepsLoopWitness ==
  \E s \in Slots :
    ReapDone(s) /\ proc[s].reap.failed /\ proc[s].reap.selected >= 2

\* the sendWhatsAppMessage call of s has its page open
HasPage(s) == Batch(s) /\ proc[s].page # 0 /\ IsOpen(pages, proc[s].page)

\* C35: while a sendWhatsAppMessage call runs, the page it opened goes away
\* only in a page.close() of that call or with its browser; no other handler
\* closes it, the closeExistingWhatsAppTabs(false) of another send request
\* included.
OnlyOwnerClosesSendPage ==
  [][\A s \in Slots :
       HasPage(s) /\ ~IsOpen(pages', proc[s].page) =>
         \/ proc[s].br \notin alive'
         \/ /\ proc[s].pc \in {"send_close", "ok_close", "none_close", "err_close"}
            /\ proc'[s] # proc[s]]_vars

(***************************************************************************)
(* Properties of sendWhatsAppMessage without a browser                     *)
(***************************************************************************)

\* the call of s returned false from the outer catch before a page was
\* opened, and its caller went on
FailedAtOnce(p) ==
  /\ p.att.site = 239 /\ p.att.page = 0
  /\ p.pc = "done" /\ p.status = 200 /\ p.failCount = 1 /\ p.successCount = 0

\* C31: a sendWhatsAppMessage call made while `browser` is not set, or while
\* the browser it points to is gone, returns false from the outer catch
\* (line 239): no page is opened, so nothing is navigated, and no exception
\* reaches the caller.
SendWithoutBrowserFails ==
  [][~Responding =>
       \A s \in Slots :
         /\ proc'[s].kind = "batch" /\ proc'[s].calls # <<>> /\ ~proc'[s].hadBrowser =>
              FailedAtOnce(proc'[s])
         /\ Batch(s) /\ proc[s].pc = "send_newPage" /\ proc[s].br \notin alive
              /\ proc'[s] # proc[s] =>
              FailedAtOnce(proc'[s]) /\ pages' = pages]_vars

\* a call made while `browser` was not set has returned
SendWithoutBrowserFailsWitness ==
  \E s \in Slots :
    Attempted(s) /\ ~proc[s].hadBrowser /\ FailedAtOnce(proc[s]) /\ browser = 0

(***************************************************************************)
(* Termination of POST /send-messages                                      *)
(***************************************************************************)

\* C32: when every await settles, every send request is answered: with the
\* counts (200), or with 500 when initBrowser threw; no sendWhatsAppMessage
\* call stays on an await for ever.
SendBatchReturns ==
  \A s \in Slots :
    (Batch(s) /\ proc[s].pc # "done")
      ~> (Batch(s) /\ proc[s].pc = "done" /\ proc[s].status \in {200, 500})

\* a request with two contacts was answered after two sendWhatsAppMessage
\* calls, the first of which went through the OK-button strategies
SendBatchReturnsWitness ==
  \E s \in Slots :
    /\ Result(s) /\ Len(proc[s].calls) = 2 /\ proc[s].delays = 1
    /\ \E o \in {"Rejected", "Failed"} : <<o, FALSE>> \in proc[s].returned
    /\ proc[s].att.page # 0

(***************************************************************************)
(* Properties of the init request after the browser is gone                *)
(***************************************************************************)

\* the init request of s arrived with `browser` set and no browser running
BrowserGoneAtArrival(s) ==
  proc[s].kind = "init" /\ proc[s].hadBrowser /\ proc[s].seen = {}

\* C34: an init request that arrives after the browser has gone is answered
\* 200 with a running browser in `browser` and the page at the root URL open
\* in it, unless a launch failed.
InitRevivesSession ==
  \A s \in Slots :
    BrowserGoneAtArrival(s) /\ Answered(s) /\ ~proc[s].launchFailed =>
      /\ proc[s].status = 200
      /\ browser \in alive
      /\ \E k \in 1..Len(pages) : pages[k].br = browser /\ pages[k].url = RootUrl

(***************************************************************************)
(* Properties of a send request that overlaps a force close                *)
(***************************************************************************)

\* the send request of s was answered with counts that cover its contacts,
\* or with 500 after its own initBrowser call threw
Counted(s) ==
  /\ Batch(s) /\ Answered(s)
  /\ \/ /\ proc[s].status = 200
        /\ proc[s].successCount + proc[s].failCount = N(s)
        /\ Len(proc[s].visited) = N(s)
     \/ proc[s].status = 500 /\ proc[s].launchFailed

\* C36: a send request that is running is answered in the end, with counts
\* that cover every contact (or with 500 when its own launch failed), also
\* when init and close requests force-close pages meanwhile.
ResetKeepsBatch ==
  (\E s \in Slots : Batch(s) /\ Busy(s)) ~> (\E s \in Slots : Counted(s))

\* a close request was answered after it closed the page of a running
\* sendWhatsAppMessage call
ResetKeepsBatchWitness ==
  \E s, t \in Slots :
    /\ Batch(s) /\ Busy(s) /\ proc[s].page # 0 /\ ~IsOpen(pages, proc[s].page)
    /\ proc[s].br \in alive /\ N(s) = 2 /\ proc[s].i = 0
    /\ proc[t].kind = "close" /\ Answered(t) /\ proc[t].reap.attempted >= 1
    /\ ~proc[t].reap.failed

(***************************************************************************)
(* Properties of the session record                                        *)
(***************************************************************************)

\* C37: in every reachable state whatsappSessionState.initialized is true
\* exactly when `browser` is set, and active = true only when initialized =
\* true, however the initBrowser calls interleave.
InitializedIffBrowser ==
  /\ whatsappSessionState.initialized <=> browser # 0
  /\ whatsappSessionState.active => whatsappSessionState.initialized

(***************************************************************************)
(* Properties of the legacy server (src/server.js)                         *)
(***************************************************************************)

\* the send request of s went past the test of isWhatsAppReady and has not
\* been answered
LegacySending(s) ==
  legacyProc[s].kind = "send"
    /\ legacyProc[s].pc \in {"send_newPage", "send_message", "send_close"}

\* C38: a send request that went past the test of isWhatsAppReady works on a
\* browser that is running, also when an init request closes the browser
\* meanwhile.
LegacySendOnLiveBrowser ==
  \A s \in Slots : LegacySending(s) => legacyProc[s].br \in legacy.alive

(***************************************************************************)
(* Properties of the frontend                                              *)
(***************************************************************************)

\* C39: the polling started after a successful init request stops as soon
\* as one of its polls reports the session ready: once a poll has reported
\* ready the interval is cleared.
PollingStopsWhenReady == checkInterval.reported => ~checkInterval.set

====
